---- MODULE Spec2Model ----
(***************************************************************************)
(* Model of retro/scan.py: scan(hypo_params, scan_values, metric,          *)
(* metric_kw), the N-dimensional outer-product parameter scan with its     *)
(* progress report.  One behaviour is one call of scan: the arguments are  *)
(* chosen in Init, Normalize is lines 77-101, every loop iteration of      *)
(* lines 103-114 is one step, Finish is lines 115-117.                     *)
(***************************************************************************)
EXTENDS Integers, Sequences, FiniteSets

VARIABLES
    hypo_params,    \* argument: sequence of axis names
    scan_values,    \* argument, as passed by the caller (a Python object)
    metric,         \* argument: which kind of callable the metric is
    metric_kw,      \* argument, then the local of line 78
    pc,             \* "start", "loop", "done" (returned), "raised"
    scan_sequences, \* local of line 87
    shape,          \* local of line 88
    total_points,   \* local of line 98
    it,             \* state of the iterator product(*scan_sequences)
    n,              \* loop variable of line 103, -1 before the first point
    metric_vals,    \* local of line 101
    times,          \* local of line 100, in milliseconds
    printed,        \* the progress lines written to stdout
    result,         \* what scan returned
    error,          \* the exception scan raised, "" when none
    ncalls,         \* history: number of metric invocations so far
    last_call,      \* history: arguments of the latest metric invocation
    metric_raised,  \* history: index of the point the metric raised on, -1
    report_failed   \* history: index of the point whose report raised, -1

vars == <<hypo_params, scan_values, metric, metric_kw, pc, scan_sequences,
          shape, total_points, it, n, metric_vals, times, printed, result,
          error, ncalls, last_call, metric_raised, report_failed>>

(***************************************************************************)
(* Bounds of the small grids.                                              *)
(***************************************************************************)
MaxAxes == 2
MaxLen == 2

report_after == 500

(***************************************************************************)
(* Python objects.  A scalar is [scalar |-> v]; a collection has a kind,   *)
(* "list" (a collections.Sequence) or "iter" (a single-pass iterator or    *)
(* generator), and the items it still has to yield.                        *)
(***************************************************************************)
Scalar(v) == [scalar |-> v]
Coll(k, s) == [kind |-> k, items |-> s]
isscalar(x) == DOMAIN x = {"scalar"}
isSequence(x) == (~isscalar(x)) /\ x.kind = "list"

PyNone == [none |-> TRUE]
Dict(pairs) == [dict |-> pairs]
NoResult == [returned |-> FALSE, shape |-> <<>>, flat |-> <<>>]
NoCall == [params |-> {}, kw |-> Dict({})]

Min(a, b) == IF a < b THEN a ELSE b
Max(a, b) == IF a > b THEN a ELSE b

RECURSIVE Prod(_)
Prod(s) == IF s = <<>> THEN 1 ELSE Head(s) * Prod(Tail(s))

(***************************************************************************)
(* Lines 84-85: the first element of the whole specification decides       *)
(* whether it is one unwrapped axis.  next(iter(x)) takes the first item   *)
(* of x; an iterator is its own iter() and loses that item, a list does    *)
(* not.                                                                    *)
(***************************************************************************)
AfterNext(x) == IF x.kind = "iter" THEN Coll("iter", Tail(x.items)) ELSE x

IsUnwrappedNever(first) == FALSE

IsUnwrapped(first) == isscalar(first)

\* The axes the loop of line 89 iterates over.
Axes(sv) ==
    IF IsUnwrapped(Head(sv.items))
    THEN <<AfterNext(sv)>>
    ELSE AfterNext(sv).items

(***************************************************************************)
(* Lines 90-95: one axis made a concrete sequence.                         *)
(***************************************************************************)
Materialize(sv) ==
    IF isSequence(sv) THEN sv.items
    ELSE IF isscalar(sv) THEN <<sv>>
    ELSE sv.items

ScanSequences(sv) == [j \in 1..Len(Axes(sv)) |-> Materialize(Axes(sv)[j])]

SelectSeqNonEmpty(seqs) == SelectSeq(seqs, LAMBDA s : s # <<>>)

ShapeSkipEmpty(seqs) ==
    [j \in 1..Len(SelectSeqNonEmpty(seqs)) |-> Len(SelectSeqNonEmpty(seqs)[j])]

\* Line 96.
ShapeOf(seqs) == [j \in 1..Len(seqs) |-> Len(seqs[j])]

(***************************************************************************)
(* itertools.product: an odometer over the pools, the rightmost index      *)
(* advancing first.  `it` holds the indices of the next point to yield.    *)
(***************************************************************************)
ProductStart(seqs) ==
    [indices |-> [j \in 1..Len(seqs) |-> 1],
     stopped |-> \E j \in 1..Len(seqs) : seqs[j] = <<>>]

RECURSIVE Advance(_, _, _)
Advance(ind, shp, j) ==
    IF j = 0 THEN [indices |-> ind, stopped |-> TRUE]
    ELSE IF ind[j] < shp[j]
         THEN [indices |-> [ind EXCEPT ![j] = @ + 1], stopped |-> FALSE]
         ELSE Advance([ind EXCEPT ![j] = 1], shp, j - 1)

RECURSIVE AdvanceLeft(_, _, _)
AdvanceLeft(ind, shp, j) ==
    IF j > Len(shp) THEN [indices |-> ind, stopped |-> TRUE]
    ELSE IF ind[j] < shp[j]
         THEN [indices |-> [ind EXCEPT ![j] = @ + 1], stopped |-> FALSE]
         ELSE AdvanceLeft([ind EXCEPT ![j] = 1], shp, j + 1)

ProductNextLeftFastest(ind, shp) == AdvanceLeft(ind, shp, 1)

ProductNext(ind, shp) == Advance(ind, shp, Len(shp))

ParamValues(seqs, ind) == [j \in 1..Len(seqs) |-> seqs[j][ind[j]]]

(***************************************************************************)
(* Line 104: dict(zip(hypo_params, param_values)).  zip stops at the       *)
(* shorter argument; a repeated key keeps its last value.  A dict is the   *)
(* set of its key/value pairs.                                             *)
(***************************************************************************)
DictZip(names, vals) ==
    {<<names[i], vals[i]>> : i \in
        {i \in 1..Min(Len(names), Len(vals)) :
            \A k \in (i + 1)..Min(Len(names), Len(vals)) : names[k] # names[i]}}

(***************************************************************************)
(* The metric is the caller's callable.  "tag" returns a number that       *)
(* identifies its arguments (a different one for different arguments),     *)
(* "const" the same number at every point, "text" a value that does not    *)
(* convert to FTYPE.  Any call may raise instead of returning.             *)
(***************************************************************************)
MetricVal(kind, call) ==
    IF kind = "const" THEN 0 ELSE [m |-> call]

\* Line 115: np.array(metric_vals, dtype=FTYPE) converts every value.
ToFTYPE(v) == [ftype |-> v]

ReshapeReversed(flat, shp) ==
    [returned |-> TRUE,
     shape |-> [j \in 1..Len(shp) |-> shp[Len(shp) + 1 - j]],
     flat |-> flat]

\* Line 115: .reshape(shape) keeps the flat (C order) data and sets the shape.
Reshape(flat, shp) == [returned |-> TRUE, shape |-> shp, flat |-> flat]

(***************************************************************************)
(* Lines 106-113: the progress report.  Clock readings are milliseconds.   *)
(***************************************************************************)
RoundDiv(a, b) ==
    LET q == a \div b
        r == a % b
    IN  IF 2 * r < b THEN q
        ELSE IF 2 * r > b THEN q + 1
        ELSE IF q % 2 = 0 THEN q ELSE q + 1

WindowLastTwo(ts) == SubSeq(ts, Max(1, Len(ts) - 1), Len(ts))

\* times[-3:]
Window(ts) == SubSeq(ts, Max(1, Len(ts) - 2), Len(ts))

\* np.mean(np.diff(times[-3:])) / report_after, as a fraction of ms per point
AvgNum(ts) == Window(ts)[Len(Window(ts))] - Window(ts)[1]
AvgDen(ts) == (Len(Window(ts)) - 1) * report_after

ReportLine(ts, total, k) ==
    [n |-> k,
     elapsed |-> RoundDiv(ts[Len(ts)] - ts[1], 1000),
     avg |-> RoundDiv(AvgNum(ts) * 1000, AvgDen(ts)),
     remaining |-> RoundDiv(AvgNum(ts) * (total - k - 1), 1000 * AvgDen(ts))]

ClockSteps == {500, 1500}

(***************************************************************************)
(* The arguments of the call.                                              *)
(***************************************************************************)
AllNames == <<"a", "b", "c", "d", "e", "f">>
NamePrefix(k) == SubSeq(AllNames, 1, k)
Ramp(len) == [i \in 1..len |-> Scalar(i)]

Elements ==
    {Scalar(v) : v \in 1..2}
    \cup {Coll(k, Ramp(l)) : k \in {"list", "iter"}, l \in 0..MaxLen}

SmallSpecs ==
    {Scalar(1)} \cup
    {Coll(k, s) : k \in {"list", "iter"},
                  s \in UNION {[1..m -> Elements] : m \in 0..MaxAxes}}

SmallNames == {NamePrefix(k) : k \in 0..(MaxAxes + 1)} \cup {<<"a", "a">>}

KwArgs == {PyNone, Dict({<<"event", 1>>})}

BigShape == <<12, 12, 11>>
BigSpec == Coll("list", [j \in 1..Len(BigShape) |-> Coll("list", Ramp(BigShape[j]))])

InitLocals ==
    /\ pc = "start"
    /\ scan_sequences = <<>>
    /\ shape = <<>>
    /\ total_points = 0
    /\ it = [indices |-> <<>>, stopped |-> TRUE]
    /\ n = -1
    /\ metric_vals = <<>>
    /\ times = <<>>
    /\ printed = <<>>
    /\ result = NoResult
    /\ error = ""
    /\ ncalls = 0
    /\ last_call = NoCall
    /\ metric_raised = -1
    /\ report_failed = -1

InitSmall ==
    /\ hypo_params \in SmallNames
    /\ scan_values \in SmallSpecs
    /\ metric \in {"tag", "text"}
    /\ metric_kw \in KwArgs

InitBig ==
    /\ hypo_params = NamePrefix(Len(BigShape))
    /\ scan_values = BigSpec
    /\ metric = "const"
    /\ metric_kw = PyNone

Init == (InitSmall \/ InitBig) /\ InitLocals

(***************************************************************************)
(* Lines 77-101.                                                           *)
(***************************************************************************)
kwOf(kw) == IF kw = PyNone THEN Dict({}) ELSE kw

Normalize ==
    /\ pc = "start"
    /\ metric_kw' = kwOf(metric_kw)
    /\ IF isscalar(scan_values)
       THEN \* iter(scan_values) of a scalar
            /\ pc' = "raised"
            /\ error' = "TypeError"
            /\ UNCHANGED <<scan_sequences, shape, total_points, it, times>>
       ELSE IF scan_values.items = <<>>
       THEN \* next() of an exhausted iterator
            /\ pc' = "raised"
            /\ error' = "StopIteration"
            /\ UNCHANGED <<scan_sequences, shape, total_points, it, times>>
       ELSE /\ scan_sequences' = ScanSequences(scan_values)
            /\ shape' = ShapeOf(scan_sequences')
            /\ total_points' = Prod(shape')
            /\ it' = ProductStart(scan_sequences')
            /\ times' = <<0>>
            /\ pc' = "loop"
            /\ UNCHANGED error
    /\ UNCHANGED <<hypo_params, scan_values, metric, n, metric_vals, printed,
                   result, ncalls, last_call, metric_raised, report_failed>>

(***************************************************************************)
(* Lines 103-114: one iteration.  The metric raises, or it returns and     *)
(* the value is appended; at a reporting boundary the report is written,   *)
(* or writing it raises.                                                   *)
(***************************************************************************)
ThisCall ==
    [params |-> DictZip(hypo_params, ParamValues(scan_sequences, it.indices)),
     kw |-> metric_kw]

AtBoundary(k) == k > 0 /\ k % report_after = 0

Called ==
    /\ pc = "loop"
    /\ ~it.stopped
    /\ n' = n + 1
    /\ ncalls' = ncalls + 1
    /\ last_call' = ThisCall
    /\ UNCHANGED <<hypo_params, scan_values, metric, metric_kw,
                   scan_sequences, shape, total_points, result>>

MetricRaisesSwallowed ==
    /\ Called
    /\ metric_raised' = n'
    /\ metric_vals' = Append(metric_vals, MetricVal("const", ThisCall))
    /\ it' = ProductNext(it.indices, shape)
    /\ UNCHANGED <<pc, error, times, printed, report_failed>>

MetricRaises ==
    /\ Called
    /\ metric_raised' = n'
    /\ pc' = "raised"
    /\ error' = "MetricError"
    /\ UNCHANGED <<it, metric_vals, times, printed, report_failed>>

Iterate ==
    /\ Called
    /\ metric_vals' = Append(metric_vals, MetricVal(metric, ThisCall))
    /\ it' = ProductNext(it.indices, shape)
    /\ IF AtBoundary(n')
       THEN \E d \in ClockSteps :
                /\ times' = Append(times, times[Len(times)] + d)
                /\ printed' = Append(printed, ReportLine(times', total_points, n'))
       ELSE UNCHANGED <<times, printed>>
    /\ UNCHANGED <<pc, error, metric_raised, report_failed>>

ReportFailsSwallowed ==
    /\ Called
    /\ AtBoundary(n')
    /\ metric_vals' = Append(metric_vals, MetricVal(metric, ThisCall))
    /\ it' = ProductNext(it.indices, shape)
    /\ \E d \in ClockSteps : times' = Append(times, times[Len(times)] + d)
    /\ report_failed' = n'
    /\ UNCHANGED <<pc, error, printed, metric_raised>>

ReportFails ==
    /\ Called
    /\ AtBoundary(n')
    /\ metric_vals' = Append(metric_vals, MetricVal(metric, ThisCall))
    /\ \E d \in ClockSteps : times' = Append(times, times[Len(times)] + d)
    /\ report_failed' = n'
    /\ pc' = "raised"
    /\ error' = "IOError"
    \* print raises, or the line is written and sys.stdout.flush raises
    /\ printed' \in {printed, Append(printed, ReportLine(times', total_points, n'))}
    /\ UNCHANGED <<it, metric_raised>>

(***************************************************************************)
(* Lines 115-117: the loop is over; convert, reshape, return.              *)
(***************************************************************************)
Finish ==
    /\ pc = "loop"
    /\ it.stopped
    /\ IF metric = "text" /\ metric_vals # <<>>
       THEN \* a value np.array cannot convert to FTYPE
            /\ pc' = "raised"
            /\ error' = "ValueError"
            /\ UNCHANGED result
       ELSE IF Len(metric_vals) # Prod(shape)
       THEN \* reshape to a shape of another size
            /\ pc' = "raised"
            /\ error' = "ValueError"
            /\ UNCHANGED result
       ELSE /\ pc' = "done"
            /\ result' = Reshape([i \in 1..Len(metric_vals) |-> ToFTYPE(metric_vals[i])],
                                 shape)
            /\ UNCHANGED error
    /\ UNCHANGED <<hypo_params, scan_values, metric, metric_kw, scan_sequences,
                   shape, total_points, it, n, metric_vals, times, printed,
                   ncalls, last_call, metric_raised, report_failed>>

Next == Normalize \/ MetricRaises \/ Iterate \/ ReportFails \/ Finish

Spec == Init /\ [][Next]_vars

(***************************************************************************)
(* Vocabulary of the properties.                                           *)
(***************************************************************************)
Lens(seqs) == [j \in 1..Len(seqs) |-> Len(seqs[j])]

MaxOf(shp) == IF shp = <<>> THEN 0
              ELSE CHOOSE m \in {shp[j] : j \in 1..Len(shp)} :
                       \A j \in 1..Len(shp) : shp[j] <= m

\* Every multi-index of an array of shape shp (1-based).
MultiIndices(shp) ==
    {f \in [1..Len(shp) -> 1..MaxOf(shp)] : \A j \in 1..Len(shp) : f[j] <= shp[j]}

\* Number of elements one step along dimension j skips in C order.
Stride(shp, j) == Prod(SubSeq(shp, j + 1, Len(shp)))

RECURSIVE Offset(_, _, _)
Offset(idx, shp, j) ==
    IF j > Len(shp) THEN 0
    ELSE (idx[j] - 1) * Stride(shp, j) + Offset(idx, shp, j + 1)

\* arr[idx] of a C-ordered array.
At(arr, idx) == arr.flat[1 + Offset(idx, arr.shape, 1)]

\* The m-th (0-based) point of the row-major enumeration of the axes.
RowMajorPoint(seqs, m) ==
    [j \in 1..Len(seqs) |->
        seqs[j][((m \div Stride(Lens(seqs), j)) % Len(seqs[j])) + 1]]

\* The mapping {names[j]: point[j]} of a grid with one distinct name per axis.
Binding(names, point) == {<<names[j], point[j]>> : j \in 1..Len(point)}

Distinct(names) ==
    \A i, j \in 1..Len(names) : names[i] = names[j] => i = j

\* The caller passed every axis as a non-empty list.
Materialized ==
    /\ ~isscalar(scan_values)
    /\ scan_values.kind = "list"
    /\ scan_values.items # <<>>
    /\ \A j \in 1..Len(scan_values.items) :
          /\ ~isscalar(scan_values.items[j])
          /\ scan_values.items[j].kind = "list"
          /\ scan_values.items[j].items # <<>>

GivenAxes == [j \in 1..Len(scan_values.items) |-> scan_values.items[j].items]

Normalized == pc \in {"loop", "done"} \/ metric_raised >= 0 \/ report_failed >= 0 \/ error = "ValueError"

HasEmptyAxis == \E j \in 1..Len(scan_sequences) : scan_sequences[j] = <<>>

(***************************************************************************)
(* C1: for a grid whose axes are non-empty materialized sequences, with    *)
(* one distinct name per axis, the returned array has the shape of the     *)
(* axis lengths, and its element at every multi-index is the (converted)   *)
(* value the metric returned for the point that multi-index selects.       *)
(***************************************************************************)
C1_ShapeAndElements ==
    (pc = "done" /\ Materialized /\ Distinct(hypo_params)
        /\ Len(hypo_params) = Len(GivenAxes))
    => /\ result.returned
       /\ result.shape = Lens(GivenAxes)
       /\ Len(result.flat) = Prod(Lens(GivenAxes))
       /\ \A idx \in MultiIndices(Lens(GivenAxes)) :
             At(result, idx) =
                 ToFTYPE(MetricVal(metric,
                     [params |-> Binding(hypo_params,
                                    [j \in 1..Len(GivenAxes) |-> GivenAxes[j][idx[j]]]),
                      kw |-> kwOf(metric_kw)]))

C1_Witness ==
    /\ pc = "done" /\ Materialized /\ metric = "tag"
    /\ hypo_params = <<"a", "b">>
    /\ Lens(GivenAxes) = <<1, 2>>

(***************************************************************************)
(* C2: the metric invocations are the row-major enumeration of the axes:   *)
(* the m-th call gets the m-th row-major point bound to the axis names,    *)
(* with the fixed keyword arguments, there are never more calls than       *)
(* points, and a scan that completes has made exactly product(len) calls.  *)
(***************************************************************************)
C2_RowMajorCalls ==
    Normalized =>
       /\ ncalls <= Prod(Lens(scan_sequences))
       /\ ncalls = n + 1
       /\ (pc = "done" => ncalls = Prod(Lens(scan_sequences)))
       /\ (ncalls >= 1 => last_call.kw = kwOf(metric_kw))
       /\ (ncalls >= 1 /\ Distinct(hypo_params)
              /\ Len(hypo_params) = Len(scan_sequences))
          => last_call.params =
                 Binding(hypo_params, RowMajorPoint(scan_sequences, ncalls - 1))

C2_Witness ==
    /\ pc = "done" /\ ncalls = 4
    /\ Lens(scan_sequences) = <<2, 2>>
    /\ hypo_params = <<"a", "b">>
    /\ metric_kw = Dict({<<"event", 1>>})

(***************************************************************************)
(* C3: when the metric raises on point k, scan has raised that error,      *)
(* exactly k+1 invocations have happened, and nothing was returned.        *)
(***************************************************************************)
C3_MetricErrorPropagates ==
    metric_raised >= 0 =>
       /\ pc = "raised"
       /\ error = "MetricError"
       /\ metric_raised < Prod(Lens(scan_sequences))
       /\ ncalls = metric_raised + 1
       /\ Len(metric_vals) = metric_raised
       /\ ~result.returned

C3_Witness ==
    /\ metric_raised = 2 /\ pc = "raised" /\ ncalls = 3
    /\ Prod(Lens(scan_sequences)) = 4

EmptySpecification == (~isscalar(scan_values)) /\ scan_values.items = <<>>

ScalarList(x) ==
    /\ ~isscalar(x) /\ x.kind = "list" /\ x.items # <<>>
    /\ \A i \in 1..Len(x.items) : isscalar(x.items[i])

BareV == ScalarList(scan_values)

WrappedV ==
    /\ ~isscalar(scan_values) /\ scan_values.kind = "list"
    /\ Len(scan_values.items) = 1
    /\ ScalarList(scan_values.items[1])

TheV == IF BareV THEN scan_values.items ELSE scan_values.items[1].items

SingleAxisCall(i) ==
    [params |-> DictZip(hypo_params, <<TheV[i]>>), kw |-> kwOf(metric_kw)]

C5_BareEqualsWrapped ==
    ((BareV \/ WrappedV) /\ pc # "start") =>
       /\ Normalized
       /\ scan_sequences = <<TheV>>
       /\ shape = <<Len(TheV)>>
       /\ (ncalls >= 1 => last_call = SingleAxisCall(ncalls))
       /\ (pc = "done" =>
             /\ ncalls = Len(TheV)
             /\ result = [returned |-> TRUE, shape |-> <<Len(TheV)>>,
                          flat |-> [i \in 1..Len(TheV) |->
                              ToFTYPE(MetricVal(metric, SingleAxisCall(i)))]])

C5_Witness ==
    /\ pc = "done" /\ BareV /\ metric = "tag"
    /\ scan_values.items = <<Scalar(1), Scalar(2)>>
    /\ hypo_params = <<"a">>
    /\ result.shape = <<2>>

(***************************************************************************)
(* C6 as stated: an axis given as a bare scalar v behaves as the axis      *)
(* [v], at every position of a grid that also has a collection axis: the   *)
(* output has one dimension per axis, of length 1 for the scalar ones.     *)
(***************************************************************************)
FixedAxisGrid ==
    /\ ~isscalar(scan_values) /\ scan_values.kind = "list"
    /\ Distinct(hypo_params)
    /\ Len(hypo_params) = Len(scan_values.items)
    /\ \E j \in 1..Len(scan_values.items) : isscalar(scan_values.items[j])
    /\ \E j \in 1..Len(scan_values.items) : ~isscalar(scan_values.items[j])
    /\ \A j \in 1..Len(scan_values.items) :
          \/ isscalar(scan_values.items[j])
          \/ /\ scan_values.items[j].kind = "list"
             /\ scan_values.items[j].items # <<>>

AxisAsList(x) == IF isscalar(x) THEN <<x>> ELSE x.items

C6_ScalarAxisIsOneElementAxis ==
    (FixedAxisGrid /\ pc = "done") =>
       /\ result.shape =
             [j \in 1..Len(scan_values.items) |->
                 Len(AxisAsList(scan_values.items[j]))]
       /\ ncalls = Len(result.flat)

(***************************************************************************)
(* C7 as stated: with a number of names other than the number of axes,     *)
(* the metric is never invoked.                                            *)
(***************************************************************************)
C7_NameCountMismatchRejected ==
    (Materialized /\ Len(hypo_params) # Len(GivenAxes)) => ncalls = 0

(***************************************************************************)
(* C8 as stated: a failure of the progress report does not abort the       *)
(* scan.                                                                   *)
(***************************************************************************)
C8_ReportFailureSwallowed == report_failed >= 0 => pc # "raised"

(***************************************************************************)
(* C8 amended: a failure of the progress report after point k propagates:  *)
(* scan has raised, exactly k+1 invocations have happened, and nothing     *)
(* was returned.                                                           *)
(***************************************************************************)
C8_ReportFailurePropagates ==
    report_failed >= 0 =>
       /\ pc = "raised"
       /\ error = "IOError"
       /\ AtBoundary(report_failed)
       /\ ncalls = report_failed + 1
       /\ ~result.returned

C8_Witness ==
    /\ report_failed = 2 * report_after /\ pc = "raised"
    /\ ncalls = 2 * report_after + 1
    /\ total_points > ncalls

(***************************************************************************)
(* C9: the timestamp log and the reported figures.  A timestamp is taken   *)
(* at the start and after every point n > 0 with n mod 500 = 0; every      *)
(* report's remaining time is its average times the points not yet         *)
(* invoked.                                                                *)
(***************************************************************************)
BoundariesPassed == IF n < 0 THEN 0 ELSE n \div report_after

LogShape ==
    /\ Len(times) = 1 + BoundariesPassed
    /\ Len(printed) = BoundariesPassed
    /\ \A i \in 1..Len(printed) : printed[i].n = i * report_after

\* The figures of the i-th report when the average is taken over the span
\* from timestamp `from` to the latest timestamp i+1.
Figures(i, from) ==
    [n |-> i * report_after,
     elapsed |-> RoundDiv(times[i + 1] - times[1], 1000),
     avg |-> RoundDiv((times[i + 1] - times[from]) * 1000,
                      (i + 1 - from) * report_after),
     remaining |-> RoundDiv((times[i + 1] - times[from])
                                * (total_points - i * report_after - 1),
                            1000 * (i + 1 - from) * report_after)]

(* C9 as stated: the average is that of the most recent window only. *)
C9_AverageOfLastWindow ==
    pc \in {"loop", "done"} =>
       /\ LogShape
       /\ \A i \in 1..Len(printed) : printed[i] = Figures(i, i)

(***************************************************************************)
(* C9 amended: the average is the mean over the most recent two windows    *)
(* (the span of the last three timestamps; the single window at the first  *)
(* report), divided by 500.                                                *)
(***************************************************************************)
C9_AverageOfLastTwoWindows ==
    pc \in {"loop", "done"} =>
       /\ LogShape
       /\ \A i \in 1..Len(printed) : printed[i] = Figures(i, Max(1, i - 1))

C9_Witness ==
    /\ pc = "loop" /\ Len(printed) = 3
    /\ times[4] - times[3] # times[3] - times[2]
    /\ times[3] - times[2] # times[2] - times[1]

(***************************************************************************)
(* C10 as stated: every axis and every value the caller supplied is        *)
(* enumerated, whatever kind of iterable the specification is.             *)
(***************************************************************************)
SuppliedAxes ==
    IF isscalar(Head(scan_values.items))
    THEN <<scan_values.items>>
    ELSE [j \in 1..Len(scan_values.items) |-> AxisAsList(scan_values.items[j])]

C10_DetectionConsumesNothing ==
    pc \in {"loop", "done"} => scan_sequences = SuppliedAxes

====
